---- MODULE Spec2Model ----
(***************************************************************************)
(* Model of scripts/resize_screenshots.py: a batch pass that resizes every *)
(* image file directly inside the Screenshots directory to 2560 x 1600.    *)
(*                                                                         *)
(* File names are sequences of one-character strings, so that the suffix   *)
(* extraction, the lower-casing and the name ordering are computed the way *)
(* pathlib and str compute them.  The file system is a function from paths *)
(* (sequences of names, relative to the target directory) to nodes.        *)
(***************************************************************************)
EXTENDS Integers, Sequences, FiniteSets, TLC

VARIABLES
    target,         \* what SCREENSHOTS_DIR points at: "missing", "file", "dir", "locked"
    fs,             \* path -> node, the content below SCREENSHOTS_DIR
    fsStart,        \* fs as it was when the current run of main() started
    pc,             \* position of main(): "start", "loop", "done", "crashed"
    listed,         \* TRUE once iterdir() has been called in this run
    image_files,    \* the list built at lines 43-46 (order is irrelevant: a set)
    queue,          \* what is left of sorted(image_files) for the generator of line 55
    success_count,  \* the running sum of line 55
    out,            \* the lines printed by this run
    processed,      \* the paths passed to resize_image in this run, in call order
    written,        \* the paths this run opened for writing
    handles,        \* number of image handles opened by this process and still open
    ran,            \* TRUE when a previous run of main() has ended
    prevFiles,      \* image_files of the previous run
    prevOk          \* paths the previous run reported as resized

vars == <<target, fs, fsStart, pc, listed, image_files, queue, success_count,
          out, processed, written, handles, ran, prevFiles, prevOk>>

----------------------------------------------------------------------------
(* Bounds *)

MaxFiles == 2       \* at most this many direct children of the target directory

----------------------------------------------------------------------------
(* Configuration, lines 11-13 *)

SCREENSHOTS_DIR == "Screenshots"
TARGET_WIDTH == 2560
TARGET_HEIGHT == 1600

----------------------------------------------------------------------------
(* Strings *)

\* ord(c) for the characters that occur in the modelled names
Ord(c) ==
    CASE c = "." -> 46
      [] c = "B" -> 66  [] c = "G" -> 71  [] c = "J" -> 74
      [] c = "N" -> 78  [] c = "P" -> 80
      [] c = "a" -> 97  [] c = "b" -> 98  [] c = "c" -> 99  [] c = "d" -> 100
      [] c = "e" -> 101 [] c = "f" -> 102 [] c = "g" -> 103 [] c = "i" -> 105
      [] c = "j" -> 106 [] c = "m" -> 109 [] c = "n" -> 110 [] c = "p" -> 112
      [] c = "t" -> 116 [] c = "x" -> 120

\* chr(n), the inverse of Ord on the same characters
Chr(n) ==
    CHOOSE c \in {".", "B", "G", "J", "N", "P", "a", "b", "c", "d", "e", "f",
                  "g", "i", "j", "m", "n", "p", "t", "x"} : Ord(c) = n

\* str.lower() on one character: ASCII upper case is moved to lower case
LowerChar(c) == IF Ord(c) >= 65 /\ Ord(c) <= 90 THEN Chr(Ord(c) + 32) ELSE c

\* str.lower()
Lower(s) == [i \in 1..Len(s) |-> LowerChar(s[i])]

\* str.rfind(c), 1-based; 0 when c does not occur
RFind(s, c) ==
    LET I == {i \in 1..Len(s) : s[i] = c}
    IN  IF I = {} THEN 0 ELSE CHOOSE i \in I : \A j \in I : j <= i

\* PurePath.suffix: the part of the name from its last dot on, the dot
\* included; empty when the dot is the first or the last character
suffix(name) ==
    LET i == RFind(name, ".")
    IN  IF 1 < i /\ i < Len(name) THEN SubSeq(name, i, Len(name)) ELSE <<>>

\* str.__lt__: lexicographic by code point, a proper prefix is smaller
RECURSIVE StrLess(_, _)
StrLess(s, t) ==
    IF t = <<>> THEN FALSE
    ELSE IF s = <<>> THEN TRUE
    ELSE IF s[1] # t[1] THEN Ord(s[1]) < Ord(t[1])
    ELSE StrLess(Tail(s), Tail(t))

----------------------------------------------------------------------------
(* The file system *)

N_a_png   == <<"a", ".", "p", "n", "g">>
N_B_PNG   == <<"B", ".", "P", "N", "G">>
N_b_txt   == <<"b", ".", "t", "x", "t">>
N_c_t_gif == <<"c", ".", "t", ".", "g", "i", "f">>
N_dot_bmp == <<".", "b", "m", "p">>
N_d_Jpeg  == <<"d", ".", "J", "p", "e", "g">>

\* names a direct child of the target directory may have
Names == {N_a_png, N_B_PNG, N_b_txt, N_c_t_gif, N_dot_bmp, N_d_Jpeg}

\* what a file may hold: a decodable image of some size, or bytes that are
\* no image; a file truncated by an interrupted save holds nothing
SmallImage == [kind |-> "image", w |-> 800, h |-> 600]
Garbage    == [kind |-> "garbage", w |-> 0, h |-> 0]
Empty      == [kind |-> "empty", w |-> 0, h |-> 0]

Contents == {SmallImage, Garbage}

FileNode(c) == [type |-> "file", data |-> c]
DirNode     == [type |-> "dir", data |-> Empty]

\* the directory trees the run may find: up to MaxFiles direct children,
\* each a file or a subdirectory that holds one image file a.png
Tree(S) ==
    LET top    == {<<n>> : n \in DOMAIN S}
        nested == {<<n, N_a_png>> : n \in {m \in DOMAIN S : S[m].type = "dir"}}
    IN  [p \in top \cup nested |-> IF Len(p) = 1 THEN S[p[1]] ELSE FileNode(SmallImage)]

Trees ==
    {Tree(S) : S \in UNION {[D -> {FileNode(c) : c \in Contents} \cup {DirNode}] :
                            D \in {E \in SUBSET Names : Cardinality(E) <= MaxFiles}}}

EmptyTree == Tree(<<>>)

\* Path.name
name(p) == p[Len(p)]

\* Path.exists()
exists_Always(t) == TRUE

exists(t) == t # "missing"

\* Path.iterdir() raises unless the path is a directory that can be listed
iterdir_raises(t) == t # "dir"

\* Path.iterdir(): the direct children
iterdir(f) == {p \in DOMAIN f : Len(p) = 1}

\* Path.is_file()
is_file(f, p) == f[p].type = "file"

\* PurePath.__lt__: paths compare part by part, each part as a string
RECURSIVE PathLess(_, _)
PathLess(p, q) ==
    IF q = <<>> THEN FALSE
    ELSE IF p = <<>> THEN TRUE
    ELSE IF p[1] # q[1] THEN StrLess(p[1], q[1])
    ELSE PathLess(Tail(p), Tail(q))

\* sorted(): ascending, smallest first
RECURSIVE sorted_Descending(_)
sorted_Descending(S) ==
    IF S = {} THEN <<>>
    ELSE LET m == CHOOSE x \in S : \A y \in S \ {x} : PathLess(y, x)
         IN  <<m>> \o sorted_Descending(S \ {m})

RECURSIVE sorted(_)
sorted(S) ==
    IF S = {} THEN <<>>
    ELSE LET m == CHOOSE x \in S : \A y \in S \ {x} : PathLess(x, y)
         IN  <<m>> \o sorted(S \ {m})

----------------------------------------------------------------------------
(* resize_image, lines 15-34 *)

\* How one call can go: every step succeeds, or Image.open, Image.resize or
\* Image.save raises.  Image.save opens the destination for writing (which
\* truncates it) before it encodes, so it can raise before the file was
\* touched ("save_early") or after it was truncated ("save_late").
Outcomes == {"ok", "open", "resize", "save_early", "save_late"}

\* the step of resize_image an outcome fails in
Step(o) == IF o \in {"save_early", "save_late"} THEN "save" ELSE o

\* Image.open raises on bytes that are no image; any step may raise on an
\* I/O or memory error whatever the file holds
Possible(c, o) == c.kind = "image" \/ o = "open"

\* img.size
size(c) == <<c.w, c.h>>

\* img.resize(size, LANCZOS): an image of exactly the requested size
resize_Halved(c, sz) == [kind |-> "image", w |-> c.w \div 2, h |-> c.h \div 2]

resize_Swapped(c, sz) == [kind |-> "image", w |-> sz[2], h |-> sz[1]]

resize(c, sz) == [kind |-> "image", w |-> sz[1], h |-> sz[2]]

\* what the file at image_path holds when resize_image returns
AfterCall(c, o) ==
    CASE o = "ok"        -> resize(c, <<TARGET_WIDTH, TARGET_HEIGHT>>)
      [] o = "save_late" -> Empty
      [] OTHER           -> c

\* `except Exception` (line 32) catches the failure of every step
caught_OpenOnly(step) == step = "open"

caught(step) == step \in {"open", "resize", "save"}

\* the value resize_image returns (lines 31 and 34)
returns_Always(o) == TRUE

returns(o) == o = "ok"

\* sum() adds True as 1 and False as 0
int(b) == IF b THEN 1 ELSE 0

\* the line printed at line 30
OkLine(p, c) ==
    [t |-> "ok", name |-> name(p), from |-> size(c),
     to |-> <<TARGET_WIDTH, TARGET_HEIGHT>>]

\* the line printed at line 33
FailLine(p, o) == [t |-> "fail", name |-> name(p), err |-> Step(o)]

\* One call resize_image(p) made by the generator of line 55, with the
\* addition of its result to the running sum.  The handle that Image.open
\* returns is bound to the local `img` and never closed by the function:
\* when the function returns the runtime either reclaims it at once
\* (reference counting) or leaves it open until a later collection.
ResizeImage(o, leaked) ==
    /\ pc = "loop"
    /\ queue # <<>>
    /\ LET p == Head(queue)
           c == fs[p].data
       IN  /\ Possible(c, o)
           /\ o = "open" => ~leaked
           /\ processed' = Append(processed, p)
           /\ queue' = Tail(queue)
           /\ fs' = [fs EXCEPT ![p].data = AfterCall(c, o)]
           /\ written' = IF o \in {"ok", "save_late"} THEN written \cup {p} ELSE written
           /\ handles' = IF leaked THEN handles + 1 ELSE handles
           /\ IF o = "ok"
              THEN /\ out' = Append(out, OkLine(p, c))
                   /\ success_count' = success_count + int(returns(o))
                   /\ pc' = pc
              ELSE IF caught(Step(o))
              THEN /\ out' = Append(out, FailLine(p, o))
                   /\ success_count' = success_count + int(returns(o))
                   /\ pc' = pc
              ELSE /\ pc' = "crashed"
                   /\ UNCHANGED <<out, success_count>>
    /\ UNCHANGED <<target, fsStart, listed, image_files, ran, prevFiles, prevOk>>

\* the garbage collector closes image handles that are no longer referenced
Collect ==
    /\ handles > 0
    /\ \E k \in 0..(handles - 1) : handles' = k
    /\ UNCHANGED <<target, fs, fsStart, pc, listed, image_files, queue,
                   success_count, out, processed, written, ran, prevFiles, prevOk>>

----------------------------------------------------------------------------
(* main, lines 36-57 *)

\* line 42, each extension as the string it is
image_extensions ==
    {<<".", "p", "n", "g">>, <<".", "j", "p", "g">>, <<".", "j", "p", "e", "g">>,
     <<".", "g", "i", "f">>, <<".", "b", "m", "p">>}

\* the filter of lines 43-46
IsImageFile_NoFileTest(f, p) == Lower(suffix(name(p))) \in image_extensions

IsImageFile(f, p) == is_file(f, p) /\ Lower(suffix(name(p))) \in image_extensions

\* lines 37-39: the target does not exist
MainNoDir ==
    /\ pc = "start"
    /\ ~exists(target)
    /\ out' = <<[t |-> "nodir", path |-> SCREENSHOTS_DIR]>>
    /\ pc' = "done"
    /\ UNCHANGED <<target, fs, fsStart, listed, image_files, queue, success_count,
                   processed, written, handles, ran, prevFiles, prevOk>>

\* lines 43-46 when iterdir() raises: nothing in main catches it
MainListFails ==
    /\ pc = "start"
    /\ exists(target)
    /\ iterdir_raises(target)
    /\ listed' = TRUE
    /\ pc' = "crashed"
    /\ UNCHANGED <<target, fs, fsStart, image_files, queue, success_count, out,
                   processed, written, handles, ran, prevFiles, prevOk>>

\* lines 43-50: the directory holds no image file
MainNoFiles ==
    /\ pc = "start"
    /\ exists(target)
    /\ ~iterdir_raises(target)
    /\ listed' = TRUE
    /\ image_files' = {p \in iterdir(fs) : IsImageFile(fs, p)}
    /\ image_files' = {}
    /\ out' = <<[t |-> "nofiles"]>>
    /\ pc' = "done"
    /\ UNCHANGED <<target, fs, fsStart, queue, success_count, processed, written,
                   handles, ran, prevFiles, prevOk>>

\* lines 43-55: the directory holds image files; the generator is set up
MainFound ==
    /\ pc = "start"
    /\ exists(target)
    /\ ~iterdir_raises(target)
    /\ listed' = TRUE
    /\ image_files' = {p \in iterdir(fs) : IsImageFile(fs, p)}
    /\ image_files' # {}
    /\ out' = <<[t |-> "found", n |-> Cardinality(image_files')],
                [t |-> "resizing", w |-> TARGET_WIDTH, h |-> TARGET_HEIGHT]>>
    /\ queue' = sorted(image_files')
    /\ pc' = "loop"
    /\ UNCHANGED <<target, fs, fsStart, success_count, processed, written,
                   handles, ran, prevFiles, prevOk>>

\* line 57, once the generator of line 55 is exhausted
MainSummary ==
    /\ pc = "loop"
    /\ queue = <<>>
    /\ out' = Append(out, [t |-> "summary", n |-> success_count,
                           m |-> Cardinality(image_files)])
    /\ pc' = "done"
    /\ UNCHANGED <<target, fs, fsStart, listed, image_files, queue, success_count,
                   processed, written, handles, ran, prevFiles, prevOk>>

\* names of the lines of one kind printed so far
LineNames(o, kind) == {o[i].name : i \in {j \in 1..Len(o) : o[j].t = kind}}

\* lines 59-60: the script is started again, as a new process, on the
\* directory as the previous run left it
Rerun ==
    /\ pc = "done"
    /\ pc' = "start"
    /\ fsStart' = fs
    /\ ran' = TRUE
    /\ prevFiles' = image_files
    /\ prevOk' = {<<n>> : n \in LineNames(out, "ok")}
    /\ listed' = FALSE
    /\ image_files' = {}
    /\ queue' = <<>>
    /\ success_count' = 0
    /\ out' = <<>>
    /\ processed' = <<>>
    /\ written' = {}
    /\ handles' = 0
    /\ UNCHANGED <<target, fs>>

----------------------------------------------------------------------------

Targets == {"missing", "file", "dir", "locked"}

Init ==
    /\ target \in Targets
    /\ fs \in (IF target = "dir" THEN Trees ELSE {EmptyTree})
    /\ fsStart = fs
    /\ pc = "start"
    /\ listed = FALSE
    /\ image_files = {}
    /\ queue = <<>>
    /\ success_count = 0
    /\ out = <<>>
    /\ processed = <<>>
    /\ written = {}
    /\ handles = 0
    /\ ran = FALSE
    /\ prevFiles = {}
    /\ prevOk = {}

Next ==
    \/ MainNoDir
    \/ MainListFails
    \/ MainNoFiles
    \/ MainFound
    \/ \E o \in Outcomes, leaked \in BOOLEAN : ResizeImage(o, leaked)
    \/ MainSummary
    \/ Collect
    \/ Rerun

Spec == Init /\ [][Next]_vars

----------------------------------------------------------------------------
(* Properties *)

\* the names of Names whose extension, lower-cased, is png, jpg, jpeg, gif
\* or bmp (a name that is nothing but a leading dot and letters has none)
AllowedNames == {N_a_png, N_B_PNG, N_c_t_gif, N_d_Jpeg}

\* the candidates of a directory tree, as the specification describes them
Candidates(f) ==
    {p \in DOMAIN f : Len(p) = 1 /\ f[p].type = "file" /\ p[1] \in AllowedNames}

\* positions of the lines of one kind
LinesOf(kind) == {i \in 1..Len(out) : out[i].t = kind}

\* the elements of a sequence
Range(q) == {q[i] : i \in 1..Len(q)}

C2_OnlyCandidatesTouched ==
    /\ (listed /\ pc # "crashed") => image_files = Candidates(fsStart)
    /\ \A p \in DOMAIN fsStart \ Candidates(fsStart) :
          /\ p \in DOMAIN fs
          /\ fs[p] = fsStart[p]
          /\ p \notin written
          /\ p \notin Range(processed)
    /\ \A i \in LinesOf("found") : out[i].n = Cardinality(Candidates(fsStart))
    /\ \A i \in LinesOf("summary") : out[i].m = Cardinality(Candidates(fsStart))

C2_Witness ==
    /\ pc = "done"
    /\ LineNames(out, "ok") # {}
    /\ \E p \in DOMAIN fs :
          /\ Len(p) = 1
          /\ fs[p].type = "dir"
          /\ p[1] \in AllowedNames
          /\ <<p[1], N_a_png>> \in DOMAIN fs

\* C3: a failure of open, resize or save on one candidate never ends the
\* run: no error leaves resize_image, the failure is printed with the file
\* name and the error, it is not counted as a success, and the candidates
\* after it are still processed; a directory whose only candidate is
\* corrupt ends with the summary 0/1.
C3_FailureDoesNotAbort ==
    /\ pc = "crashed" => processed = <<>>
    /\ \A i \in 1..Len(processed) :
          /\ out[i + 2].t \in {"ok", "fail"}
          /\ out[i + 2].name = name(processed[i])
          /\ out[i + 2].t = "fail" => out[i + 2].err \in {"open", "resize", "save"}
    /\ success_count = Len(processed) - Cardinality(LinesOf("fail"))
    /\ (pc = "done" /\ listed) => Range(processed) = Candidates(fsStart)
    /\ (/\ pc = "done"
        /\ Cardinality(Candidates(fsStart)) = 1
        /\ \A p \in Candidates(fsStart) : fsStart[p].data.kind = "garbage")
       => out[Len(out)] = [t |-> "summary", n |-> 0, m |-> 1]

C3_Witness ==
    /\ pc = "done"
    /\ Len(processed) = 2
    /\ out[3].t = "fail"
    /\ out[4].t = "ok"

\* C4: the running success count never exceeds the number of candidates
\* processed so far; in the summary N/M, M is the number of candidates
\* enumerated, N the number reported as resized, and N plus the number of
\* reported failures is M.
C4_SuccessCountBounded ==
    /\ success_count <= Len(processed)
    /\ success_count = Cardinality(LinesOf("ok"))
    /\ \A i \in LinesOf("summary") :
          /\ out[i].m = out[1].n
          /\ out[i].m = Cardinality(Candidates(fsStart))
          /\ out[i].n = Cardinality(LinesOf("ok"))
          /\ out[i].n + Cardinality(LinesOf("fail")) = out[i].m
          /\ out[i].n <= out[i].m

C4_Witness ==
    /\ pc = "done"
    /\ \E i \in LinesOf("summary") : 0 < out[i].n /\ out[i].n < out[i].m

\* C5: when the target directory does not exist, the run prints exactly one
\* line, which names the missing path, and ends without listing the
\* directory, calling resize_image, writing a file or printing a summary.
C5_MissingDirectory ==
    (target = "missing" /\ pc # "start") =>
        /\ pc = "done"
        /\ out = <<[t |-> "nodir", path |-> "Screenshots"]>>
        /\ ~listed
        /\ processed = <<>>
        /\ written = {}
        /\ fs = fsStart

C5_Witness == target = "missing" /\ pc = "done" /\ Len(out) = 1

\* C6: every run of main() ends normally, whatever the file system holds:
\* no error leaves main() uncaught, also when the target path exists but is
\* no directory or cannot be listed.
C6_NoUncaughtError == pc # "crashed"

\* C7: the image handle opened by resize_image is released on every exit
\* path of the call: once the call has returned, no handle it opened is
\* still open.
C7_HandleReleased == handles = 0

\* C8, as stated: after a second consecutive run every candidate has the
\* dimensions it had after the first run, and both runs have the same
\* candidates.
C8_SecondRunKeepsDimensions ==
    (ran /\ pc = "done" /\ listed) =>
        /\ image_files = prevFiles
        /\ \A p \in image_files : size(fs[p].data) = size(fsStart[p].data)

\* C8, amended: both runs have the same candidates, and every candidate
\* that both runs reported as resized has after the second run the
\* dimensions it had after the first.
C8_ResizedTwiceKeepsDimensions ==
    (ran /\ pc = "done" /\ listed) =>
        /\ image_files = prevFiles
        /\ \A p \in image_files :
              (p \in prevOk /\ name(p) \in LineNames(out, "ok")) =>
                  size(fs[p].data) = size(fsStart[p].data)

C8_Witness ==
    /\ ran
    /\ pc = "done"
    /\ \E p \in image_files : p \in prevOk /\ name(p) \in LineNames(out, "ok")

\* C9: candidates are processed one at a time in ascending order of name,
\* each exactly once; one status line is printed per candidate, in that
\* order, and one summary line, after the status line of the last
\* candidate.
C9_SortedOnePass ==
    /\ \A i, j \in 1..Len(processed) :
          i < j => StrLess(name(processed[i]), name(processed[j]))
    /\ Range(processed) \subseteq image_files
    /\ (pc \in {"loop", "done"} /\ image_files # {}) =>
          /\ Len(out) = 2 + Len(processed) + (IF pc = "done" THEN 1 ELSE 0)
          /\ \A i \in 1..Len(processed) :
                out[i + 2].t \in {"ok", "fail"} /\ out[i + 2].name = name(processed[i])
          /\ LinesOf("summary") = (IF pc = "done" THEN {Len(out)} ELSE {})
          /\ pc = "done" => Len(processed) = Cardinality(image_files)

C9_Witness ==
    /\ pc = "done"
    /\ processed = <<(<<N_B_PNG>>), (<<N_a_png>>)>>
    /\ Len(out) = 5

\* C10: a candidate is modified only by a successful resize: a candidate
\* that resize_image reported as failed holds what it held before the call.
C10_FailureKeepsContent ==
    \A n \in LineNames(out, "fail") : fs[<<n>>] = fsStart[<<n>>]

====
